---- MODULE Spec2Model ----
(***************************************************************************)
(* Model of the linguistic aggregation core of writer-doc:                 *)
(*   analyzer/collocations.py  extract_noun_adj_pairs,                     *)
(*                             search_adjectives_for_noun                  *)
(*   analyzer/dictionary.py    build_dictionary                            *)
(*   analyzer/statistics.py    compute_statistics                          *)
(*                                                                         *)
(* A Python str is a sequence of one-character strings, so that lower(),   *)
(* strip(), startswith() and " ".join() are computed, not assumed.         *)
(* A Counter / dict is a sequence of entries in insertion order, which is  *)
(* the order most_common() and sorted() break ties by.                     *)
(***************************************************************************)
EXTENDS Integers, Sequences, FiniteSets, TLC

VARIABLES
    doc,            \* the annotated document: a sequence of sentences
    pc,             \* position of the running function
    si, ti,         \* Pass 1: sentence index, token index inside the sentence
    wi, wj,         \* Pass 2: noun position i and neighbour position j (flat)
    pair_counter,   \* Counter: sequence of [pair, count], insertion order
    pair_examples,  \* defaultdict(list): pair -> sequence of phrases
    raised,         \* TRUE once extract_noun_adj_pairs has raised
    out,            \* the dict extract_noun_adj_pairs returns
    query, limit,   \* the arguments of search_adjectives_for_noun
    result,         \* the list search_adjectives_for_noun returns
    top_n,          \* the argument of compute_statistics
    dictionary,     \* the list build_dictionary returns
    statistics      \* the dict compute_statistics returns

vars == <<doc, pc, si, ti, wi, wj, pair_counter, pair_examples, raised, out,
          query, limit, result, top_n, dictionary, statistics>>

----------------------------------------------------------------------------
(* Bounds of the model *)

MaxTokens == 3

LongTokens == 5

MaxPairs == 3

MaxCount == 2

MaxLimit == 3

DictTokens == 4

----------------------------------------------------------------------------
(* Program constants *)

\* dictionary.py line 51: window=6
ContextWindow == 6

\* pipeline.py line 19: top_n = 100
DefaultTopN == 100

----------------------------------------------------------------------------
(* Python str *)

ToLower == ("D" :> "d") @@ ("S" :> "s")

LowerChar(c) == IF c \in DOMAIN ToLower THEN ToLower[c] ELSE c

\* str.lower()
Lower(s) == [k \in 1..Len(s) |-> LowerChar(s[k])]

\* sep.join(parts) with sep = " "
RECURSIVE Join(_)
Join(parts) ==
    IF parts = <<>> THEN <<>>
    ELSE IF Len(parts) = 1 THEN parts[1]
    ELSE parts[1] \o <<" ">> \o Join(Tail(parts))

\* `a or b` on strings: the empty string is falsy
OrElse(a, b) == IF a # <<>> THEN a ELSE b

\* (t.lemma or t.text).lower()
LemmaOf(t) == Lower(OrElse(t.lemma, t.text))

----------------------------------------------------------------------------
(* Documents *)

ADJ_LIKE_POS == {"ADJ", "VERB"}

\* doc.tokens: the flat token view across sentence boundaries
RECURSIVE Flatten(_)
Flatten(sents) ==
    IF sents = <<>> THEN <<>> ELSE sents[1] \o Flatten(Tail(sents))

Tokens(d) == Flatten(d)

Max(a, b) == IF a >= b THEN a ELSE b
Min(a, b) == IF a <= b THEN a ELSE b

\* The lexical items documents are built from: text, lemma (may be empty), pos
Lexicon ==
    { [text |-> <<"D","o">>,     lemma |-> <<"d","o">>, pos |-> "NOUN"],
      [text |-> <<"s","a">>,     lemma |-> <<>>,        pos |-> "PROPN"],
      [text |-> <<"S","t">>,     lemma |-> <<"S","t">>, pos |-> "ADJ"],
      [text |-> <<"s","t","a">>, lemma |-> <<"s","t">>, pos |-> "VERB"],
      [text |-> <<"n","e">>,     lemma |-> <<"n","e">>, pos |-> "ADJ"] }

\* The items that may carry the amod relation in an input document
AmodLexicon == { l \in Lexicon : l.pos \in {"ADJ", "VERB", "PROPN"} }

\* Tokens of the documents that vary the words: any item, a modifier naming
\* the first or the last token as its head.  head_id 0 is the root marker: no
\* token has id 0
TokenChoices(n) ==
    { [lex |-> l, rel |-> "nsubj", head_id |-> 0] : l \in Lexicon }
    \cup { [lex |-> l, rel |-> "amod", head_id |-> h] : l \in AmodLexicon, h \in {1, n} }

\* Tokens of the documents that vary the heads: a modifier names any token of
\* the document, in its sentence or not, or the root
HeadLexicon == { l \in Lexicon : l.text \in {<<"D","o">>, <<"s","a">>, <<"S","t">>} }

HeadTokenChoices(n) ==
    { [lex |-> l, rel |-> "nsubj", head_id |-> 0] : l \in HeadLexicon }
    \cup { [lex |-> l, rel |-> "amod", head_id |-> h] :
             l \in { x \in HeadLexicon : x.pos = "ADJ" }, h \in 0..n }

\* Tokens of the longer documents: a noun, or a modifier of the third token
LongLexicon == Lexicon

LongTokenChoices ==
    { [lex |-> l, rel |-> "nsubj", head_id |-> 0] :
        l \in { x \in LongLexicon : x.pos \in {"NOUN", "PROPN"} } }
    \cup { [lex |-> l, rel |-> "amod", head_id |-> 3] :
             l \in { x \in LongLexicon : x.pos \in ADJ_LIKE_POS } }

\* Token ids: positional (unique)
PositionalIds(n) == [k \in 1..n |-> k]

\* Token ids of an invalid sentence: token c repeats the id of the earlier token j
CollidingIds(n) ==
    { [k \in 1..n |-> IF k = c THEN j ELSE k] : c \in 2..n, j \in 1..(n-1) }
    \ { PositionalIds(n) }

\* token.start: the character offset of the token in the text
RECURSIVE StartOf(_, _)
StartOf(flat, k) ==
    IF k <= 1 THEN 0 ELSE StartOf(flat, k - 1) + Len(flat[k-1].lex.text) + 1

MkToken(flat, ids, k) ==
    [ text    |-> flat[k].lex.text,
      lemma   |-> flat[k].lex.lemma,
      pos     |-> flat[k].lex.pos,
      id      |-> ids[k],
      head_id |-> flat[k].head_id,
      rel     |-> flat[k].rel,
      start   |-> StartOf(flat, k) ]

\* A document of n tokens cut into one or two sentences after token `cut`
MkDoc(flat, ids, cut) ==
    LET n == Len(flat)
        toks == [k \in 1..n |-> MkToken(flat, ids, k)]
    IN  IF n = 0 THEN <<>>
        ELSE IF cut >= n THEN << toks >>
        ELSE << SubSeq(toks, 1, cut), SubSeq(toks, cut + 1, n) >>

\* The valid input documents (ids unique): one sentence of up to MaxTokens
\* tokens varying the words, one or two sentences of up to MaxTokens tokens
\* varying the heads, and one sentence of LongTokens tokens
IsInputDoc(d) ==
    \/ \E n \in 0..MaxTokens : \E flat \in [1..n -> TokenChoices(n)] :
         d = MkDoc(flat, PositionalIds(n), n)
    \/ \E n \in 1..MaxTokens : \E flat \in [1..n -> HeadTokenChoices(n)] :
         \E cut \in 1..n : d = MkDoc(flat, PositionalIds(n), cut)
    \/ \E flat \in [1..LongTokens -> LongTokenChoices] :
         d = MkDoc(flat, PositionalIds(LongTokens), LongTokens)

\* The invalid input documents: one sentence in which two tokens share an id
IsCollidingDoc(d) ==
    \E n \in 2..MaxTokens : \E flat \in [1..n -> HeadTokenChoices(n)] :
        \E ids \in CollidingIds(n) : d = MkDoc(flat, ids, n)

----------------------------------------------------------------------------
(* extract_noun_adj_pairs: the pair set *)

None == [none |-> TRUE]

\* pair in pair_counter
InCounter(counter, pair) == \E k \in 1..Len(counter) : counter[k].pair = pair

\* the keys of pair_counter
PairKeys(counter) == { counter[k].pair : k \in 1..Len(counter) }

\* pair_counter[pair], 0 for a missing key
CountOf(counter, pair) ==
    IF InCounter(counter, pair)
    THEN (CHOOSE e \in {counter[k] : k \in 1..Len(counter)} : e.pair = pair).count
    ELSE 0

\* mutant: pair_counter[pair] = 1 instead of += 1
IncrementAssignsOne(counter, pair) ==
    IF InCounter(counter, pair)
    THEN [k \in 1..Len(counter) |->
            IF counter[k].pair = pair
            THEN [counter[k] EXCEPT !.count = 1] ELSE counter[k]]
    ELSE Append(counter, [pair |-> pair, count |-> 1])

\* pair_counter[pair] += 1: a new key is appended, an old one keeps its place
Increment(counter, pair) ==
    IF InCounter(counter, pair)
    THEN [k \in 1..Len(counter) |->
            IF counter[k].pair = pair
            THEN [counter[k] EXCEPT !.count = @ + 1] ELSE counter[k]]
    ELSE Append(counter, [pair |-> pair, count |-> 1])

\* pair_examples[pair] on a defaultdict(list), read only
ExamplesOf(examples, pair) ==
    IF pair \in DOMAIN examples THEN examples[pair] ELSE <<>>

InSeq(x, s) == \E k \in 1..Len(s) : s[k] = x

\* mutant: the `len(pair_examples[pair]) < 3` test dropped
AddExampleNoCap(examples, pair, phrase) ==
    LET old == ExamplesOf(examples, pair)
        new == IF ~InSeq(phrase, old) THEN Append(old, phrase) ELSE old
    IN  [p \in DOMAIN examples \cup {pair} |-> IF p = pair THEN new ELSE examples[p]]

\* if len(pair_examples[pair]) < 3: if phrase not in ...: append
AddExample(examples, pair, phrase) ==
    LET old == ExamplesOf(examples, pair)
        new == IF Len(old) < 3 /\ ~InSeq(phrase, old) THEN Append(old, phrase) ELSE old
    IN  [p \in DOMAIN examples \cup {pair} |-> IF p = pair THEN new ELSE examples[p]]

\* id_to_token = {t.id: t for t in sent.tokens}; .get(head_id): the last token
\* of the sentence with that id wins, a missing id gives None
IdToTokenGet(sent, hid) ==
    LET hits == { k \in 1..Len(sent) : sent[k].id = hid }
    IN  IF hits = {} THEN None
        ELSE sent[CHOOSE k \in hits : \A m \in hits : m <= k]

\* key=lambda t: t.start if hasattr(t, 'start') and t.start else 0
StartKey(t) == IF t.start # 0 THEN t.start ELSE 0

\* " ".join(t.text for t in sorted([head, token], key=...)): sorted is stable
SyntacticPhrase(head, token) ==
    IF StartKey(head) <= StartKey(token)
    THEN Join(<<head.text, token.text>>)
    ELSE Join(<<token.text, head.text>>)

\* " ".join(t.text for t in tokens[lo : hi + 1]), positions counted from 1
WindowPhrase(tokens, i, j) ==
    LET lo == Min(i, j)
        hi == Max(i, j)
    IN  Join([k \in 1..(hi - lo + 1) |-> tokens[lo + k - 1].text])

NounPos == {"NOUN", "PROPN"}

\* mutant: the head's part of speech is not tested
SyntacticHitAnyHead(sent, token) ==
    /\ token.rel = "amod"
    /\ token.pos \in ADJ_LIKE_POS
    /\ IdToTokenGet(sent, token.head_id) # None

\* Pass 1, lines 70-72: does `token` of sentence `sent` record a pair?
SyntacticHit(sent, token) ==
    /\ token.rel = "amod"
    /\ token.pos \in ADJ_LIKE_POS
    /\ LET head == IdToTokenGet(sent, token.head_id)
       IN  head # None /\ head.pos \in NounPos

\* Pass 1, lines 73-75: the pair a hit records
SyntacticPair(sent, token) ==
    LET head == IdToTokenGet(sent, token.head_id)
    IN  <<LemmaOf(head), LemmaOf(token)>>

\* Pass 2, lines 94-95, positions counted from 1
WinLo(i) == Max(1, i - 2)
WinHi(i, n) == Min(n, i + 2)

\* Pass 2, lines 97-103: is (i, j) a window occurrence of a pair?
WindowHit(tokens, i, j) == j # i /\ tokens[j].pos = "ADJ"

\* Pass 2, lines 91, 104-105
WindowPair(tokens, i, j) == <<LemmaOf(tokens[i]), LemmaOf(tokens[j])>>

\* mutant: the `pair not in pair_counter` test dropped
WindowAddsAlways(counter, pair) == TRUE

\* mutant: the window pass adds to a key until its count is 2
WindowAddsBelowTwo(counter, pair) == CountOf(counter, pair) < 2

\* Pass 2, line 107: the window pass adds only a pair not yet in pair_counter
WindowAdds(counter, pair) == ~InCounter(counter, pair)

----------------------------------------------------------------------------
(* extract_noun_adj_pairs: the output structures *)

\* sorted(items, key=count, reverse=True): stable, equal counts keep their order
RECURSIVE SortByCountDesc(_)

\* mutant: an unstable sort, a later item goes before the earlier items of its count
InsertByCountBeforeTies(sorted, x) ==
    LET before == { k \in 1..Len(sorted) : sorted[k].count > x.count }
        m == Cardinality(before)
    IN  SubSeq(sorted, 1, m) \o <<x>> \o SubSeq(sorted, m + 1, Len(sorted))

InsertByCount(sorted, x) ==
    LET before == { k \in 1..Len(sorted) : sorted[k].count >= x.count }
        m == Cardinality(before)
    IN  SubSeq(sorted, 1, m) \o <<x>> \o SubSeq(sorted, m + 1, Len(sorted))

SortByCountDesc(items) ==
    IF items = <<>> THEN <<>>
    ELSE InsertByCount(SortByCountDesc(SubSeq(items, 1, Len(items) - 1)),
                       items[Len(items)])

\* mutant: the keys in insertion order, not ranked
MostCommonInsertionOrder(counter) == counter

\* Counter.most_common()
MostCommon(counter) == SortByCountDesc(counter)

\* mutant: index[key] = [item], the earlier items of the key are lost
IndexAppendOverwrites(index, key, item) ==
    IF \E k \in 1..Len(index) : index[k].key = key
    THEN [k \in 1..Len(index) |->
            IF index[k].key = key
            THEN [index[k] EXCEPT !.items = <<item>>] ELSE index[k]]
    ELSE Append(index, [key |-> key, items |-> <<item>>])

\* index[key].append(item) on a defaultdict(list) kept in insertion order
IndexAppend(index, key, item) ==
    IF \E k \in 1..Len(index) : index[k].key = key
    THEN [k \in 1..Len(index) |->
            IF index[k].key = key
            THEN [index[k] EXCEPT !.items = Append(@, item)] ELSE index[k]]
    ELSE Append(index, [key |-> key, items |-> <<item>>])

\* lines 131-134: every per-key list sorted by count descending
SortIndex(index) ==
    [k \in 1..Len(index) |-> [index[k] EXCEPT !.items = SortByCountDesc(@)]]

\* lines 120-124
PairList(counter, examples) ==
    LET mc == MostCommon(counter)
    IN  [k \in 1..Len(mc) |->
            [noun |-> mc[k].pair[1], adj |-> mc[k].pair[2], count |-> mc[k].count,
             examples |-> ExamplesOf(examples, mc[k].pair)]]

\* lines 125-127, before the sort
RECURSIVE NounAdjRaw(_)
NounAdjRaw(plist) ==
    IF plist = <<>> THEN <<>>
    ELSE LET e == plist[Len(plist)]
         IN  IndexAppend(NounAdjRaw(SubSeq(plist, 1, Len(plist) - 1)), e.noun,
                         [adj |-> e.adj, count |-> e.count, examples |-> e.examples])

\* line 128, before the sort
RECURSIVE AdjNounRaw(_)
AdjNounRaw(plist) ==
    IF plist = <<>> THEN <<>>
    ELSE LET e == plist[Len(plist)]
         IN  IndexAppend(AdjNounRaw(SubSeq(plist, 1, Len(plist) - 1)), e.adj,
                         [noun |-> e.noun, count |-> e.count])

\* sum(pair_counter.values())
RECURSIVE SumCounts(_)
SumCounts(counter) ==
    IF counter = <<>> THEN 0 ELSE counter[1].count + SumCounts(Tail(counter))

\* mutant: the number of keys instead of the sum of the counts
TotalPairsCountsKeys(counter) == Len(counter)

TotalPairs(counter) == SumCounts(counter)

UniquePairs(counter) == Len(counter)

\* lines 136-142
BuildOutput(counter, examples) ==
    LET plist == PairList(counter, examples)
    IN  [ noun_adj_index |-> SortIndex(NounAdjRaw(plist)),
          adj_noun_index |-> SortIndex(AdjNounRaw(plist)),
          pair_list      |-> plist,
          total_pairs    |-> TotalPairs(counter),
          unique_pairs   |-> UniquePairs(counter) ]

----------------------------------------------------------------------------
(* extract_noun_adj_pairs as a state machine: one step per loop iteration *)

NoStatistics == [ total_tokens |-> -1 ]

NoOutput == [ noun_adj_index |-> <<>>, adj_noun_index |-> <<>>, pair_list |-> <<>>,
              total_pairs |-> -1, unique_pairs |-> -1 ]

\* the state on entry to extract_noun_adj_pairs, lines 59-62
ExtractEntry ==
    /\ pc = "pass1"
    /\ si = 1
    /\ ti = 1
    /\ wi = 1
    /\ wj = 1
    /\ pair_counter = <<>>
    /\ pair_examples = <<>>
    /\ raised = FALSE
    /\ out = NoOutput

\* search_adjectives_for_noun has not been called
NoSearch ==
    /\ query = <<>>
    /\ limit = 0
    /\ result = <<>>

\* build_dictionary and compute_statistics have not been called
NoDictionary ==
    /\ top_n = 0
    /\ dictionary = <<>>
    /\ statistics = NoStatistics

Init ==
    /\ IsInputDoc(doc)
    /\ ExtractEntry
    /\ NoSearch
    /\ NoDictionary

InitCollision ==
    /\ IsCollidingDoc(doc)
    /\ ExtractEntry
    /\ NoSearch
    /\ NoDictionary

\* the loop variables after the token (si, ti)
Pass1Advance ==
    IF ti < Len(doc[si])
    THEN si' = si /\ ti' = ti + 1
    ELSE si' = si + 1 /\ ti' = 1

\* lines 69-84 for a token that records a pair
Pass1Record ==
    /\ pc = "pass1"
    /\ si <= Len(doc)
    /\ SyntacticHit(doc[si], doc[si][ti])
    /\ LET sent  == doc[si]
           token == sent[ti]
           head  == IdToTokenGet(sent, token.head_id)
           pair  == SyntacticPair(sent, token)
       IN  /\ pair_counter' = Increment(pair_counter, pair)
           /\ pair_examples' = AddExample(pair_examples, pair, SyntacticPhrase(head, token))
    /\ Pass1Advance
    /\ UNCHANGED <<query, limit, result, top_n, dictionary, statistics>>
    /\ UNCHANGED <<doc, pc, wi, wj, raised, out>>

\* lines 69-72 for a token that records nothing
Pass1Skip ==
    /\ pc = "pass1"
    /\ si <= Len(doc)
    /\ ~SyntacticHit(doc[si], doc[si][ti])
    /\ Pass1Advance
    /\ UNCHANGED <<query, limit, result, top_n, dictionary, statistics>>
    /\ UNCHANGED <<doc, pc, wi, wj, pair_counter, pair_examples, raised, out>>

\* lines 86-87: the sentence loop is over, the window pass starts
Pass1End ==
    /\ pc = "pass1"
    /\ si > Len(doc)
    /\ pc' = "pass2"
    /\ wi' = 1
    /\ wj' = WinLo(1)
    /\ UNCHANGED <<query, limit, result, top_n, dictionary, statistics>>
    /\ UNCHANGED <<doc, si, ti, pair_counter, pair_examples, raised, out>>

\* the loop variables after the neighbour (wi, wj)
Pass2Advance ==
    IF wj < WinHi(wi, Len(Tokens(doc)))
    THEN wi' = wi /\ wj' = wj + 1
    ELSE wi' = wi + 1 /\ wj' = WinLo(wi + 1)

\* lines 89-90: token i is no noun
Pass2NotNoun ==
    /\ pc = "pass2"
    /\ wi <= Len(Tokens(doc))
    /\ Tokens(doc)[wi].pos \notin NounPos
    /\ wi' = wi + 1
    /\ wj' = WinLo(wi + 1)
    /\ UNCHANGED <<query, limit, result, top_n, dictionary, statistics>>
    /\ UNCHANGED <<doc, pc, si, ti, pair_counter, pair_examples, raised, out>>

\* lines 96-113 for a neighbour that creates a pair
Pass2Record ==
    /\ pc = "pass2"
    /\ wi <= Len(Tokens(doc))
    /\ Tokens(doc)[wi].pos \in NounPos
    /\ WindowHit(Tokens(doc), wi, wj)
    /\ WindowAdds(pair_counter, WindowPair(Tokens(doc), wi, wj))
    /\ LET pair == WindowPair(Tokens(doc), wi, wj)
       IN  /\ pair_counter' = Increment(pair_counter, pair)
           /\ pair_examples' = AddExample(pair_examples, pair,
                                          WindowPhrase(Tokens(doc), wi, wj))
    /\ Pass2Advance
    /\ UNCHANGED <<query, limit, result, top_n, dictionary, statistics>>
    /\ UNCHANGED <<doc, pc, si, ti, raised, out>>

\* lines 96-107 for a neighbour that changes nothing
Pass2Skip ==
    /\ pc = "pass2"
    /\ wi <= Len(Tokens(doc))
    /\ Tokens(doc)[wi].pos \in NounPos
    /\ ~( /\ WindowHit(Tokens(doc), wi, wj)
          /\ WindowAdds(pair_counter, WindowPair(Tokens(doc), wi, wj)) )
    /\ Pass2Advance
    /\ UNCHANGED <<query, limit, result, top_n, dictionary, statistics>>
    /\ UNCHANGED <<doc, pc, si, ti, pair_counter, pair_examples, raised, out>>

\* line 115: the token loop is over
Pass2End ==
    /\ pc = "pass2"
    /\ wi > Len(Tokens(doc))
    /\ pc' = "build"
    /\ UNCHANGED <<query, limit, result, top_n, dictionary, statistics>>
    /\ UNCHANGED <<doc, si, ti, wi, wj, pair_counter, pair_examples, raised, out>>

\* lines 115-142
Build ==
    /\ pc = "build"
    /\ out' = BuildOutput(pair_counter, pair_examples)
    /\ pc' = "done"
    /\ UNCHANGED <<query, limit, result, top_n, dictionary, statistics>>
    /\ UNCHANGED <<doc, si, ti, wi, wj, pair_counter, pair_examples, raised>>

Next ==
    \/ Pass1Record
    \/ Pass1Skip
    \/ Pass1End
    \/ Pass2NotNoun
    \/ Pass2Record
    \/ Pass2Skip
    \/ Pass2End
    \/ Build

Spec == Init /\ [][Next]_vars

\* extract_noun_adj_pairs on documents that break the unique-id contract
SpecCollision == InitCollision /\ [][Next]_vars

----------------------------------------------------------------------------
(* search_adjectives_for_noun *)

IsSpace(c) == c = " "

\* str.strip(): leading and trailing whitespace removed
RECURSIVE StripLeft(_)
StripLeft(s) ==
    IF s # <<>> /\ IsSpace(s[1]) THEN StripLeft(Tail(s)) ELSE s

RECURSIVE StripRight(_)
StripRight(s) ==
    IF s # <<>> /\ IsSpace(s[Len(s)]) THEN StripRight(SubSeq(s, 1, Len(s) - 1)) ELSE s

Strip(s) == StripRight(StripLeft(s))

\* s.startswith(prefix)
StartsWith(s, prefix) ==
    Len(prefix) <= Len(s) /\ SubSeq(s, 1, Len(prefix)) = prefix

\* list[:n], a negative n counting from the end
SliceTo(list, n) ==
    IF n >= 0 THEN SubSeq(list, 1, Min(n, Len(list)))
    ELSE SubSeq(list, 1, Max(0, Len(list) + n))

\* line 152
NormalizeQuery(q) == Lower(Strip(q))

\* mutant: the exact-match branch is never taken, every query is prefix-matched
HasKeyNever(index, key) == FALSE

\* query_lower in noun_adj_index
HasKey(index, key) == \E k \in 1..Len(index) : index[k].key = key

\* noun_adj_index[key]
ItemsOf(index, key) ==
    (CHOOSE e \in {index[k] : k \in 1..Len(index)} : e.key = key).items

\* lines 157-160: the lists of the keys that start with the query, in key order
RECURSIVE PrefixMatches(_, _)
PrefixMatches(index, q) ==
    IF index = <<>> THEN <<>>
    ELSE (IF StartsWith(index[1].key, q) THEN index[1].items ELSE <<>>)
         \o PrefixMatches(Tail(index), q)

\* mutant: the matches are walked in key order, unsorted
SortedMatchesForgotSort(index, q) == PrefixMatches(index, q)

\* line 164: sorted(matches, key=count, reverse=True)
SortedMatches(index, q) == SortByCountDesc(PrefixMatches(index, q))

\* line 168: the loop leaves once the result has reached the limit
LimitReached(res, lim) == Len(res) >= lim

\* lines 162-169: the loop over the sorted matches from position k on
RECURSIVE DedupLoop(_, _, _, _, _)
DedupLoop(items, k, seen, res, lim) ==
    IF k > Len(items) THEN res
    ELSE LET item == items[k]
             fresh == item.adj \notin seen
             seen2 == IF fresh THEN seen \cup {item.adj} ELSE seen
             res2 == IF fresh THEN Append(res, item) ELSE res
         IN  IF LimitReached(res2, lim) THEN res2
             ELSE DedupLoop(items, k + 1, seen2, res2, lim)

\* lines 145-170
search_adjectives_for_noun(index, q, lim) ==
    LET query_lower == NormalizeQuery(q)
    IN  IF HasKey(index, query_lower)
        THEN SliceTo(ItemsOf(index, query_lower), lim)
        ELSE DedupLoop(SortedMatches(index, query_lower), 1, {}, <<>>, lim)

\* The searches start from a finished extraction.  Its pair set: up to MaxPairs
\* distinct pairs over these lemmas, in any insertion order, counts 1..MaxCount
SearchNouns == { <<"d","o">>, <<"d","o","m">> }
SearchAdjs == { <<"s","t">>, <<"n","e">> }

IsSearchCounter(counter) ==
    \E n \in 0..MaxPairs :
        \E keys \in [1..n -> SearchNouns \X SearchAdjs] :
            \E counts \in [1..n -> 1..MaxCount] :
                /\ \A a, b \in 1..n : keys[a] = keys[b] => a = b
                /\ counter = [k \in 1..n |-> [pair |-> keys[k], count |-> counts[k]]]

\* one example phrase per pair, as the passes leave at least one
SearchExamples(counter) ==
    [p \in PairKeys(counter) |-> << Join(<<p[2], p[1]>>) >>]

Queries ==
    { <<"d","o">>, <<" ","D","o"," ">>, <<"d">>, <<"d","o","m">>, <<"x">>, <<" ">> }

Limits == (-1)..MaxLimit

InitSearch ==
    /\ doc = <<>>
    /\ si = 1
    /\ ti = 1
    /\ wi = 1
    /\ wj = 1
    /\ raised = FALSE
    /\ IsSearchCounter(pair_counter)
    /\ pair_examples = SearchExamples(pair_counter)
    /\ out = BuildOutput(pair_counter, pair_examples)
    /\ pc = "done"
    /\ query \in Queries
    /\ limit \in Limits
    /\ result = <<>>
    /\ NoDictionary

\* api_search: one call of search_adjectives_for_noun on the cached index
Search ==
    /\ pc = "done"
    /\ result' = search_adjectives_for_noun(out.noun_adj_index, query, limit)
    /\ pc' = "searched"
    /\ UNCHANGED <<doc, si, ti, wi, wj, pair_counter, pair_examples, raised, out,
                   query, limit, top_n, dictionary, statistics>>

NextSearch == Search

SpecSearch == InitSearch /\ [][NextSearch]_vars

----------------------------------------------------------------------------
(* build_dictionary and compute_statistics *)

INCLUDE_POS == {"NOUN", "ADJ", "VERB", "ADV", "PROPN", "PRON", "NUM", "DET", "INTJ"}

CONTENT_POS == {"NOUN", "ADJ", "VERB", "ADV", "PROPN"}

\* the keys of POS_LABELS_RU: the recognized tags
POS_LABELS_RU ==
    {"NOUN", "ADJ", "VERB", "ADV", "PROPN", "PRON", "DET", "ADP", "CCONJ", "SCONJ",
     "PART", "NUM", "PUNCT", "INTJ", "SYM", "X"}

\* ord(c) for the characters of the documents
CodePoint ==
    (" " :> 32) @@ ("%" :> 37) @@ ("," :> 44) @@ ("D" :> 68) @@ ("S" :> 83)
    @@ ("a" :> 97) @@ ("d" :> 100) @@ ("e" :> 101) @@ ("m" :> 109) @@ ("n" :> 110)
    @@ ("o" :> 111) @@ ("s" :> 115) @@ ("t" :> 116) @@ ("x" :> 120)

\* a < b on str: by the first differing character, a proper prefix first
RECURSIVE StrLess(_, _)
StrLess(a, b) ==
    IF b = <<>> THEN FALSE
    ELSE IF a = <<>> THEN TRUE
    ELSE IF a[1] # b[1] THEN CodePoint[a[1]] < CodePoint[b[1]]
    ELSE StrLess(Tail(a), Tail(b))

\* sorted(set_of_str)
RECURSIVE SortedStrings(_)
SortedStrings(S) ==
    IF S = {} THEN <<>>
    ELSE LET least == CHOOSE x \in S : \A y \in S \ {x} : StrLess(x, y)
         IN  <<least>> \o SortedStrings(S \ {least})

\* counter[key] += 1 on a Counter kept in insertion order
CounterAdd(counter, key) ==
    IF \E k \in 1..Len(counter) : counter[k].key = key
    THEN [k \in 1..Len(counter) |->
            IF counter[k].key = key
            THEN [counter[k] EXCEPT !.count = @ + 1] ELSE counter[k]]
    ELSE Append(counter, [key |-> key, count |-> 1])

\* Counter.most_common(n): the n largest, ties in insertion order
MostCommonN(counter, n) ==
    IF n <= 0 THEN <<>>
    ELSE SubSeq(SortByCountDesc(counter), 1, Min(n, Len(counter)))

\* _extract_context(doc, target_token, window): token k of the flat view
ExtractContext(tokens, k, window) ==
    LET lo == Max(1, k - window)
        hi == Min(Len(tokens), k + window)
    IN  Join([m \in 1..(hi - lo + 1) |-> tokens[lo + m - 1].text])

\* mutant: the key keeps the case of the lemma
DictKeyNoLower(t) == <<OrElse(t.lemma, t.text), t.pos>>

\* dictionary.py lines 43-45
DictKey(t) == <<LemmaOf(t), t.pos>>

\* mutant: a blacklist of punctuation and symbols instead of the whitelist
IncludedUnlessPunct(t) == t.pos \notin {"PUNCT", "SYM"}

\* dictionary.py line 41
Included(t) == t.pos \in INCLUDE_POS

\* dictionary.py lines 40-58: freq, form_sets and entries after the first k tokens
RECURSIVE DictLoop(_, _)
DictLoop(tokens, k) ==
    IF k = 0 THEN [freq |-> <<>>, form_sets |-> <<>>, entries |-> <<>>]
    ELSE LET prev == DictLoop(tokens, k - 1)
             t == tokens[k]
             key == DictKey(t)
         IN  IF ~Included(t) THEN prev
             ELSE [ freq |-> CounterAdd(prev.freq, key),
                    form_sets |->
                        [x \in DOMAIN prev.form_sets \cup {key} |->
                            IF x = key
                            THEN (IF key \in DOMAIN prev.form_sets
                                  THEN prev.form_sets[key] ELSE {}) \cup {Lower(t.text)}
                            ELSE prev.form_sets[x]],
                    entries |->
                        IF key \in DOMAIN prev.entries THEN prev.entries
                        ELSE [x \in DOMAIN prev.entries \cup {key} |->
                                IF x = key
                                THEN [lemma |-> key[1], pos |-> key[2],
                                      example |-> ExtractContext(tokens, k, ContextWindow)]
                                ELSE prev.entries[x]] ]

\* dictionary.py lines 60-68
build_dictionary(tokens) ==
    LET st == DictLoop(tokens, Len(tokens))
        mc == MostCommon(st.freq)
    IN  [k \in 1..Len(mc) |->
            [ lemma         |-> st.entries[mc[k].key].lemma,
              pos           |-> st.entries[mc[k].key].pos,
              count         |-> mc[k].count,
              surface_forms |-> SortedStrings(st.form_sets[mc[k].key]),
              example       |-> st.entries[mc[k].key].example ]]

\* statistics.py line 66
NonWordPos == {"PUNCT", "SYM"}

\* statistics.py lines 61-74: the counters after the first k tokens
RECURSIVE StatsLoop(_, _)
StatsLoop(tokens, k) ==
    IF k = 0
    THEN [ pos_counter |-> <<>>, lemma_counters |-> [p \in CONTENT_POS |-> <<>>],
           all_lemmas |-> <<>>, total_chars |-> 0, word_count |-> 0 ]
    ELSE LET prev == StatsLoop(tokens, k - 1)
             t == tokens[k]
             lemma == LemmaOf(t)
             counted == [prev EXCEPT !.pos_counter = CounterAdd(@, t.pos)]
         IN  IF t.pos \in NonWordPos THEN counted
             ELSE [ counted EXCEPT
                      !.word_count = @ + 1,
                      !.total_chars = @ + Len(t.text),
                      !.all_lemmas = CounterAdd(@, lemma),
                      !.lemma_counters =
                          IF t.pos \in CONTENT_POS
                          THEN [@ EXCEPT ![t.pos] = CounterAdd(@, lemma)]
                          ELSE @ ]

\* statistics.py lines 80-84
Top(st, pos, n) ==
    LET mc == MostCommonN(st.lemma_counters[pos], n)
    IN  [k \in 1..Len(mc) |-> [lemma |-> mc[k].key, count |-> mc[k].count]]

\* statistics.py lines 76-99; the two rounded ratios and the label table are
\* not carried
compute_statistics(tokens, n) ==
    LET st == StatsLoop(tokens, Len(tokens))
    IN  [ total_tokens     |-> Len(tokens),
          total_words      |-> st.word_count,
          unique_lemmas    |-> Len(st.all_lemmas),
          pos_distribution |-> MostCommon(st.pos_counter),
          top_nouns        |-> Top(st, "NOUN", n),
          top_adj          |-> Top(st, "ADJ", n),
          top_verbs        |-> Top(st, "VERB", n),
          top_adv          |-> Top(st, "ADV", n),
          top_propn        |-> Top(st, "PROPN", n) ]

\* The documents of the dictionary and statistics runs: one sentence of up to
\* DictTokens tokens over these items
DictLexicon ==
    { [text |-> <<"d","o">>, lemma |-> <<"d","o">>, pos |-> "NOUN"],
      [text |-> <<"d","a">>, lemma |-> <<"d","o">>, pos |-> "NOUN"],
      [text |-> <<"D","o">>, lemma |-> <<>>,        pos |-> "NOUN"],
      [text |-> <<"d","o">>, lemma |-> <<"d","o">>, pos |-> "VERB"],
      [text |-> <<"s","a">>, lemma |-> <<"s","a">>, pos |-> "NOUN"],
      [text |-> <<"o","n">>, lemma |-> <<"o","n">>, pos |-> "PRON"],
      [text |-> <<",">>,     lemma |-> <<",">>,     pos |-> "PUNCT"],
      [text |-> <<"%">>,     lemma |-> <<"%">>,     pos |-> "SYM"],
      [text |-> <<"d","o">>, lemma |-> <<"d","o">>, pos |-> "ZZZ"] }

IsDictDoc(d) ==
    \E n \in 0..DictTokens :
        \E items \in [1..n -> DictLexicon] :
            d = MkDoc([k \in 1..n |-> [lex |-> items[k], rel |-> "nsubj", head_id |-> 0]],
                      PositionalIds(n), n)

TopNs == {1, DefaultTopN}

InitDict ==
    /\ IsDictDoc(doc)
    /\ pc = "dictionary"
    /\ top_n \in TopNs
    /\ dictionary = <<>>
    /\ statistics = NoStatistics
    /\ si = 1
    /\ ti = 1
    /\ wi = 1
    /\ wj = 1
    /\ pair_counter = <<>>
    /\ pair_examples = <<>>
    /\ raised = FALSE
    /\ out = NoOutput
    /\ NoSearch

\* pipeline.py line 47
BuildDictionary ==
    /\ pc = "dictionary"
    /\ dictionary' = build_dictionary(Tokens(doc))
    /\ pc' = "statistics"
    /\ UNCHANGED <<doc, si, ti, wi, wj, pair_counter, pair_examples, raised, out,
                   query, limit, result, top_n, statistics>>

\* pipeline.py line 50
ComputeStatistics ==
    /\ pc = "statistics"
    /\ statistics' = compute_statistics(Tokens(doc), top_n)
    /\ pc' = "analysed"
    /\ UNCHANGED <<doc, si, ti, wi, wj, pair_counter, pair_examples, raised, out,
                   query, limit, result, top_n, dictionary>>

NextDict ==
    \/ BuildDictionary
    \/ ComputeStatistics

SpecDict == InitDict /\ [][NextDict]_vars

----------------------------------------------------------------------------
(* Properties of extract_noun_adj_pairs *)

\* the (head token, dependent token) combinations the syntactic pass records,
\* each token identified by its character offset
SyntacticLinks(d) ==
    { <<IdToTokenGet(d[st[1]], d[st[1]][st[2]].head_id).start, d[st[1]][st[2]].start>> :
        st \in { x \in UNION { {<<s, t>> : t \in 1..Len(d[s])} : s \in 1..Len(d) } :
                   SyntacticHit(d[x[1]], d[x[1]][x[2]]) } }

\* the pairs the syntactic pass records in document d
SyntacticPairs(d) ==
    { SyntacticPair(d[st[1]], d[st[1]][st[2]]) :
        st \in { x \in UNION { {<<s, t>> : t \in 1..Len(d[s])} : s \in 1..Len(d) } :
                   SyntacticHit(d[x[1]], d[x[1]][x[2]]) } }

\* Pass 2 stands at noun wi and neighbour wj, and (wi, wj) is a window occurrence
AtWindowHit ==
    /\ pc = "pass2"
    /\ wi <= Len(Tokens(doc))
    /\ Tokens(doc)[wi].pos \in NounPos
    /\ WindowHit(Tokens(doc), wi, wj)

\* Pass 1 stands at a token that records a pair
AtSyntacticHit ==
    /\ pc = "pass1"
    /\ si <= Len(doc)
    /\ SyntacticHit(doc[si], doc[si][ti])

\* the window occurrence (wi, wj) is not the token combination of a syntactic hit
DistinctFromSyntactic ==
    <<Tokens(doc)[wi].start, Tokens(doc)[wj].start>> \notin SyntacticLinks(doc)

RECURSIVE SumOfCounts(_)
SumOfCounts(list) ==
    IF list = <<>> THEN 0 ELSE list[1].count + SumOfCounts(Tail(list))

\* C1: in the returned dict total_pairs is the sum of the counts of pair_list,
\* unique_pairs is the length of pair_list, and no (noun, adj) key is listed twice
C1_Totals ==
    pc = "done" =>
        /\ out.total_pairs = SumOfCounts(out.pair_list)
        /\ out.unique_pairs = Len(out.pair_list)
        /\ \A a, b \in 1..Len(out.pair_list) :
             (out.pair_list[a].noun = out.pair_list[b].noun
              /\ out.pair_list[a].adj = out.pair_list[b].adj) => a = b

C1_Witness ==
    /\ pc = "done"
    /\ out.unique_pairs >= 2
    /\ out.total_pairs > out.unique_pairs

\* C2: every pair the syntactic pass recorded keeps its count and its examples
\* through every step of the window pass, and is returned with that count and
\* those examples
C2_Precedence ==
    [][ /\ pc = "pass2" =>
            \A p \in SyntacticPairs(doc) :
                /\ CountOf(pair_counter', p) = CountOf(pair_counter, p)
                /\ ExamplesOf(pair_examples', p) = ExamplesOf(pair_examples, p)
        /\ pc = "build" =>
            \A p \in SyntacticPairs(doc) :
                \E k \in 1..Len(out'.pair_list) :
                    /\ out'.pair_list[k].noun = p[1]
                    /\ out'.pair_list[k].adj = p[2]
                    /\ out'.pair_list[k].count = CountOf(pair_counter, p)
                    /\ out'.pair_list[k].examples = ExamplesOf(pair_examples, p)
      ]_vars

\* the window pass stands at an occurrence, not a syntactic one, of a pair the
\* syntactic pass recorded, whose phrase is not among the pair's examples
C2_Witness ==
    /\ AtWindowHit
    /\ DistinctFromSyntactic
    /\ WindowPair(Tokens(doc), wi, wj) \in SyntacticPairs(doc)
    /\ ~InSeq(WindowPhrase(Tokens(doc), wi, wj),
              ExamplesOf(pair_examples, WindowPair(Tokens(doc), wi, wj)))

HeadCollision(sent) ==
    \E a, b, t \in 1..Len(sent) :
        /\ a # b
        /\ t \notin {a, b}
        /\ sent[a].id = sent[b].id
        /\ sent[t].rel = "amod"
        /\ sent[t].pos \in ADJ_LIKE_POS
        /\ sent[t].head_id = sent[a].id

\* C10 as claimed: once the sentence loop has run over a sentence with a head
\* collision, extract_noun_adj_pairs has raised
C10_RaisesOnCollision ==
    (pc # "pass1" /\ \E s \in 1..Len(doc) : HeadCollision(doc[s])) => raised

\* no entry of the list is followed by an entry with a strictly larger count
RankedByCount(list) ==
    \A a, b \in 1..Len(list) : a < b => list[a].count >= list[b].count

\* C11: in the returned dict pair_list is ordered by count descending, and so
\* is every per-key list of noun_adj_index and of adj_noun_index
C11_RankedByCount ==
    pc = "done" =>
        /\ RankedByCount(out.pair_list)
        /\ \A k \in 1..Len(out.noun_adj_index) : RankedByCount(out.noun_adj_index[k].items)
        /\ \A k \in 1..Len(out.adj_noun_index) : RankedByCount(out.adj_noun_index[k].items)

\* the pair set holds, for one noun, a key with a smaller count inserted before
\* a key with a larger count, and one adjective is listed under two nouns with
\* different counts
C11_Witness ==
    /\ pc = "done"
    /\ \E a, b \in 1..Len(pair_counter) :
         /\ a < b
         /\ pair_counter[a].pair[1] = pair_counter[b].pair[1]
         /\ pair_counter[a].count < pair_counter[b].count
    /\ \E k \in 1..Len(out.adj_noun_index) :
         /\ Len(out.adj_noun_index[k].items) >= 2
         /\ out.adj_noun_index[k].items[1].count # out.adj_noun_index[k].items[2].count

\* the positions <<s, t>> of the tokens of document d
Positions(d) == UNION { { <<s, t>> : t \in 1..Len(d[s]) } : s \in 1..Len(d) }

\* the tokens of sentence `sent` that bear the id `token` names as its head
HeadsInSentence(sent, token) == { k \in 1..Len(sent) : sent[k].id = token.head_id }

\* the tokens of d that are adjectival modifiers, ADJ or VERB, of a NOUN or
\* PROPN of their own sentence, with noun lemma n and adjective lemma a
ModifierTokens(d, n, a) ==
    { x \in Positions(d) :
        /\ d[x[1]][x[2]].rel = "amod"
        /\ d[x[1]][x[2]].pos \in {"ADJ", "VERB"}
        /\ LemmaOf(d[x[1]][x[2]]) = a
        /\ \E k \in HeadsInSentence(d[x[1]], d[x[1]][x[2]]) :
             /\ d[x[1]][k].pos \in {"NOUN", "PROPN"}
             /\ LemmaOf(d[x[1]][k]) = n }

\* every (noun lemma, adjective lemma) combination of the lemmas of d
LemmaPairs(d) ==
    { <<LemmaOf(Tokens(d)[i]), LemmaOf(Tokens(d)[j])>> : i, j \in 1..Len(Tokens(d)) }

\* C12: when Pass 1 ends the count of every pair (n, a) is the number of
\* modifier tokens of (n, a); a token whose head id names no token of its
\* sentence records nothing and raises nothing
C12_SyntacticCounts ==
    [][ /\ (pc = "pass1" /\ pc' = "pass2") =>
             \A p \in LemmaPairs(doc) \cup PairKeys(pair_counter') :
                 CountOf(pair_counter', p) = Cardinality(ModifierTokens(doc, p[1], p[2]))
        /\ ( /\ pc = "pass1"
             /\ si <= Len(doc)
             /\ HeadsInSentence(doc[si], doc[si][ti]) = {} ) =>
             /\ pair_counter' = pair_counter
             /\ pair_examples' = pair_examples
             /\ ~raised'
      ]_vars

\* Pass 1 has just ended with a pair recorded, on a document in which an ADJ
\* or VERB modifier names the id of a noun of another sentence
C12_Witness ==
    /\ pc = "pass2"
    /\ wi = 1
    /\ wj = 1
    /\ pair_counter # <<>>
    /\ \E x, y \in Positions(doc) :
         /\ x[1] # y[1]
         /\ doc[x[1]][x[2]].rel = "amod"
         /\ doc[x[1]][x[2]].pos \in ADJ_LIKE_POS
         /\ doc[y[1]][y[2]].id = doc[x[1]][x[2]].head_id
         /\ doc[y[1]][y[2]].pos \in NounPos
         /\ CountOf(pair_counter, <<LemmaOf(doc[y[1]][y[2]]), LemmaOf(doc[x[1]][x[2]])>>) = 1

\* the places <<k, i>> of the items of an index: item i of the list of key k
IndexPlaces(index) ==
    UNION { { <<k, i>> : i \in 1..Len(index[k].items) } : k \in 1..Len(index) }

\* the places of noun_adj_index that list adjective a under noun n
NounAdjPlaces(o, n, a) ==
    { x \in IndexPlaces(o.noun_adj_index) :
        /\ o.noun_adj_index[x[1]].key = n
        /\ o.noun_adj_index[x[1]].items[x[2]].adj = a }

\* the places of adj_noun_index that list noun n under adjective a
AdjNounPlaces(o, n, a) ==
    { x \in IndexPlaces(o.adj_noun_index) :
        /\ o.adj_noun_index[x[1]].key = a
        /\ o.adj_noun_index[x[1]].items[x[2]].noun = n }

\* the entries of pair_list for the pair (n, a)
PairListPlaces(o, n, a) ==
    { k \in 1..Len(o.pair_list) : o.pair_list[k].noun = n /\ o.pair_list[k].adj = a }

\* C13: every pair of pair_list is listed exactly once in noun_adj_index, with
\* its count and its examples, and exactly once in adj_noun_index, with its
\* count; every index item is a pair of pair_list; no index key is repeated or
\* has an empty list
C13_IndexesConsistent ==
    pc = "done" =>
        /\ \A k \in 1..Len(out.pair_list) :
             LET e == out.pair_list[k]
             IN  /\ Cardinality(NounAdjPlaces(out, e.noun, e.adj)) = 1
                 /\ \A x \in NounAdjPlaces(out, e.noun, e.adj) :
                      /\ out.noun_adj_index[x[1]].items[x[2]].count = e.count
                      /\ out.noun_adj_index[x[1]].items[x[2]].examples = e.examples
                 /\ Cardinality(AdjNounPlaces(out, e.noun, e.adj)) = 1
                 /\ \A x \in AdjNounPlaces(out, e.noun, e.adj) :
                      out.adj_noun_index[x[1]].items[x[2]].count = e.count
        /\ \A x \in IndexPlaces(out.noun_adj_index) :
             PairListPlaces(out, out.noun_adj_index[x[1]].key,
                            out.noun_adj_index[x[1]].items[x[2]].adj) # {}
        /\ \A x \in IndexPlaces(out.adj_noun_index) :
             PairListPlaces(out, out.adj_noun_index[x[1]].items[x[2]].noun,
                            out.adj_noun_index[x[1]].key) # {}
        /\ \A k \in 1..Len(out.noun_adj_index) : out.noun_adj_index[k].items # <<>>
        /\ \A k \in 1..Len(out.adj_noun_index) : out.adj_noun_index[k].items # <<>>
        /\ \A k, m \in 1..Len(out.noun_adj_index) :
             out.noun_adj_index[k].key = out.noun_adj_index[m].key => k = m
        /\ \A k, m \in 1..Len(out.adj_noun_index) :
             out.adj_noun_index[k].key = out.adj_noun_index[m].key => k = m

\* the output lists two adjectives under one noun and two nouns under one
\* adjective
C13_Witness ==
    /\ pc = "done"
    /\ \E k \in 1..Len(out.noun_adj_index) : Len(out.noun_adj_index[k].items) >= 2
    /\ \E k \in 1..Len(out.adj_noun_index) : Len(out.adj_noun_index[k].items) >= 2

\* an examples list of a pair with the given count: at most 3 phrases, no
\* phrase twice, no more phrases than the count
ExamplesWithinCap(examples, count) ==
    /\ Len(examples) <= 3
    /\ Len(examples) <= count
    /\ \A a, b \in 1..Len(examples) : examples[a] = examples[b] => a = b

\* C14: at every step each pair's examples are at most 3, pairwise different
\* and no more than the pair's count; in the returned dict every pair has at
\* least one example
C14_ExamplesCapped ==
    /\ \A p \in DOMAIN pair_examples :
         ExamplesWithinCap(pair_examples[p], CountOf(pair_counter, p))
    /\ pc = "done" =>
         /\ \A k \in 1..Len(out.pair_list) :
              /\ ExamplesWithinCap(out.pair_list[k].examples, out.pair_list[k].count)
              /\ Len(out.pair_list[k].examples) >= 1
         /\ \A x \in IndexPlaces(out.noun_adj_index) :
              /\ ExamplesWithinCap(out.noun_adj_index[x[1]].items[x[2]].examples,
                                   out.noun_adj_index[x[1]].items[x[2]].count)
              /\ Len(out.noun_adj_index[x[1]].items[x[2]].examples) >= 1

\* Pass 1 stands at an occurrence of a pair that has 3 examples, and the phrase
\* of the occurrence is not one of them
C14_Witness ==
    /\ AtSyntacticHit
    /\ Len(ExamplesOf(pair_examples, SyntacticPair(doc[si], doc[si][ti]))) = 3
    /\ ~InSeq(SyntacticPhrase(IdToTokenGet(doc[si], doc[si][ti].head_id), doc[si][ti]),
              ExamplesOf(pair_examples, SyntacticPair(doc[si], doc[si][ti])))

\* the window occurrences of the pair (n, a) in the flat token view: a noun
\* with lemma n at i and an ADJ with lemma a at j, at most 2 positions apart
WindowOccurrences(tokens, n, a) ==
    { x \in (1..Len(tokens)) \X (1..Len(tokens)) :
        /\ x[1] # x[2]
        /\ x[2] >= x[1] - 2
        /\ x[2] <= x[1] + 2
        /\ tokens[x[1]].pos \in {"NOUN", "PROPN"}
        /\ LemmaOf(tokens[x[1]]) = n
        /\ tokens[x[2]].pos = "ADJ"
        /\ LemmaOf(tokens[x[2]]) = a }

\* C15: a pair of the returned dict that no modifier token of the document
\* records (found by the window pass only) has count 1 and one example
C15_WindowOnlyOnce ==
    pc = "done" =>
        \A k \in 1..Len(out.pair_list) :
            ModifierTokens(doc, out.pair_list[k].noun, out.pair_list[k].adj) = {} =>
                /\ out.pair_list[k].count = 1
                /\ Len(out.pair_list[k].examples) = 1
                /\ WindowOccurrences(Tokens(doc), out.pair_list[k].noun,
                                     out.pair_list[k].adj) # {}

\* the returned dict holds a pair found by the window pass only, of which the
\* document has more than one window occurrence
C15_Witness ==
    /\ pc = "done"
    /\ \E k \in 1..Len(out.pair_list) :
         /\ ModifierTokens(doc, out.pair_list[k].noun, out.pair_list[k].adj) = {}
         /\ Cardinality(WindowOccurrences(Tokens(doc), out.pair_list[k].noun,
                                          out.pair_list[k].adj)) >= 2

----------------------------------------------------------------------------
(* Properties of search_adjectives_for_noun *)

\* the query as the index is asked for it: trimmed and lowercased
AskedKey == Lower(Strip(query))

\* the positions of the index whose key starts with the asked key
MatchedKeys == { k \in 1..Len(out.noun_adj_index) :
                   StartsWith(out.noun_adj_index[k].key, AskedKey) }

ExactKeys == { k \in 1..Len(out.noun_adj_index) : out.noun_adj_index[k].key = AskedKey }

\* the counts adjective a carries under the matched keys
MatchedCounts(a) ==
    UNION { { out.noun_adj_index[k].items[m].count :
                     m \in { y \in 1..Len(out.noun_adj_index[k].items) :
                               out.noun_adj_index[k].items[y].adj = a } }
                 : k \in MatchedKeys }

\* the matched keys under which adjective a is listed
KeysListing(a) ==
    { k \in MatchedKeys :
        \E m \in 1..Len(out.noun_adj_index[k].items) :
            out.noun_adj_index[k].items[m].adj = a }

SharedAdjs == { a \in SearchAdjs : Cardinality(KeysListing(a)) >= 2 }

PrefixCase ==
    /\ pc = "searched"
    /\ ExactKeys = {}
    /\ Cardinality(MatchedKeys) >= 2

\* C4: on the prefix path with two or more matched keys, no adjective is
\* returned twice, each returned adjective carries the highest count it has
\* under the matched keys, the result is ordered by count descending, and an
\* adjective shared by several matched keys is missing only when the result is
\* full with entries of at least its count
C4_PrefixDedup ==
    PrefixCase =>
        /\ \A a, b \in 1..Len(result) : result[a].adj = result[b].adj => a = b
        /\ \A k \in 1..Len(result) :
             \A c \in MatchedCounts(result[k].adj) : result[k].count >= c
        /\ \A k \in 1..Len(result) : result[k].count \in MatchedCounts(result[k].adj)
        /\ \A k \in 1..(Len(result) - 1) : result[k].count >= result[k+1].count
        /\ \A a \in SharedAdjs :
             \/ \E k \in 1..Len(result) : result[k].adj = a
             \/ /\ Len(result) >= limit
                /\ \A k \in 1..Len(result) :
                     \A c \in MatchedCounts(a) : result[k].count >= c

\* a shared adjective with different counts, the lower one under the first key,
\* is returned together with a second adjective
C4_Witness ==
    /\ PrefixCase
    /\ Len(result) = 2
    /\ \E a \in SharedAdjs :
         /\ Cardinality(MatchedCounts(a)) = 2
         /\ \E k \in 1..Len(result) : result[k].adj = a
         /\ \E k1, k2 \in KeysListing(a) :
              /\ k1 < k2
              /\ \E m1 \in 1..Len(out.noun_adj_index[k1].items),
                    m2 \in 1..Len(out.noun_adj_index[k2].items) :
                   /\ out.noun_adj_index[k1].items[m1].adj = a
                   /\ out.noun_adj_index[k2].items[m2].adj = a
                   /\ out.noun_adj_index[k1].items[m1].count
                        < out.noun_adj_index[k2].items[m2].count

\* C5: when the asked key is a key of the index and limit >= 0, the result is
\* the first `limit` entries of that key's list and nothing else; when no key
\* equals or starts with the asked key, the result is empty
C5_ExactShortCircuit ==
    pc = "searched" =>
        /\ (limit >= 0) =>
             \A e \in ExactKeys :
                 /\ Len(result) = Min(limit, Len(out.noun_adj_index[e].items))
                 /\ \A k \in 1..Len(result) : result[k] = out.noun_adj_index[e].items[k]
        /\ MatchedKeys = {} => result = <<>>

\* the asked key is a key with two adjectives, a longer key starts with it, the
\* raw query needs trimming and lowercasing, and limit 1 cuts the list
C5_Witness ==
    /\ pc = "searched"
    /\ ExactKeys # {}
    /\ Cardinality(MatchedKeys) >= 2
    /\ query # AskedKey
    /\ limit = 1
    /\ Len(result) = 1
    /\ \E e \in ExactKeys : Len(out.noun_adj_index[e].items) = 2

\* C6 as claimed: for limit >= 0 the result holds at most `limit` entries
C6_AtMostLimit ==
    (pc = "searched" /\ limit >= 0) => Len(result) <= limit

----------------------------------------------------------------------------
(* Properties of build_dictionary and compute_statistics *)

\* the lowercased lemma of token t, or its lowercased text when it has no lemma
KeyLemma(t) == Lower(IF t.lemma = <<>> THEN t.text ELSE t.lemma)

\* the positions of the tokens with lemma l and tag p
Occurrences(l, p) ==
    { k \in 1..Len(Tokens(doc)) :
        Tokens(doc)[k].pos = p /\ KeyLemma(Tokens(doc)[k]) = l }

DictionaryPos == {"NOUN", "ADJ", "VERB", "ADV", "PROPN", "PRON", "NUM", "DET", "INTJ"}

\* the keys the dictionary is to hold
DictionaryKeys ==
    { <<KeyLemma(Tokens(doc)[k]), Tokens(doc)[k].pos>> :
        k \in { x \in 1..Len(Tokens(doc)) : Tokens(doc)[x].pos \in DictionaryPos } }

SeqToSet(q) == { q[k] : k \in 1..Len(q) }

\* C7: the dictionary holds exactly one entry per (lemma-or-text, POS) key of
\* the tokens with a dictionary POS; an entry's count is the number of those
\* tokens and its surface_forms are their distinct lowercased texts, each once
C7_Dictionary ==
    pc \in {"statistics", "analysed"} =>
        /\ { <<dictionary[k].lemma, dictionary[k].pos>> : k \in 1..Len(dictionary) }
             = DictionaryKeys
        /\ Len(dictionary) = Cardinality(DictionaryKeys)
        /\ \A k \in 1..Len(dictionary) :
             LET e == dictionary[k]
                 occ == Occurrences(e.lemma, e.pos)
             IN  /\ e.count = Cardinality(occ)
                 /\ SeqToSet(e.surface_forms) = { Lower(Tokens(doc)[x].text) : x \in occ }
                 /\ Len(e.surface_forms) = Cardinality(SeqToSet(e.surface_forms))

\* a homograph pair, a key met through the missing-lemma fallback with two
\* surface forms, and a token left out of the dictionary
C7_Witness ==
    /\ pc = "analysed"
    /\ \E a, b \in 1..Len(dictionary) :
         /\ dictionary[a].lemma = dictionary[b].lemma
         /\ dictionary[a].pos # dictionary[b].pos
         /\ dictionary[a].count = 2
         /\ Len(dictionary[a].surface_forms) = 2
    /\ \E k \in 1..Len(Tokens(doc)) :
         Tokens(doc)[k].lemma = <<>> /\ Tokens(doc)[k].text # Lower(Tokens(doc)[k].text)
    /\ \E k \in 1..Len(Tokens(doc)) : Tokens(doc)[k].pos \notin DictionaryPos

\* the position where the key of a dictionary entry is first seen
FirstSeen(e) == CHOOSE k \in Occurrences(e.lemma, e.pos) :
                    \A m \in Occurrences(e.lemma, e.pos) : k <= m

\* C8: the dictionary is ordered by count descending, and entries of equal
\* count stand in the order in which their keys are first seen
C8_DictionaryOrder ==
    pc \in {"statistics", "analysed"} =>
        \A a, b \in 1..Len(dictionary) :
            a < b =>
                /\ dictionary[a].count >= dictionary[b].count
                /\ dictionary[a].count = dictionary[b].count
                     => FirstSeen(dictionary[a]) < FirstSeen(dictionary[b])

\* a more frequent key seen last comes first, before two keys of equal count
C8_Witness ==
    /\ pc = "analysed"
    /\ Len(dictionary) = 3
    /\ dictionary[1].count > dictionary[2].count
    /\ dictionary[2].count = dictionary[3].count
    /\ FirstSeen(dictionary[1]) > FirstSeen(dictionary[3])

TopLists ==
    { <<"NOUN", statistics.top_nouns>>, <<"ADJ", statistics.top_adj>>,
      <<"VERB", statistics.top_verbs>>, <<"ADV", statistics.top_adv>>,
      <<"PROPN", statistics.top_propn>> }

RecognizedPos ==
    {"NOUN", "PROPN", "ADJ", "VERB", "ADV", "PRON", "DET", "ADP", "CCONJ", "SCONJ",
     "PART", "NUM", "PUNCT", "SYM", "X", "INTJ"}

\* C9: pos_distribution counts every token, so its values sum to total_tokens;
\* total_words is total_tokens less the PUNCT and SYM tokens; every entry of a
\* top list and of the dictionary counts only the tokens of its own recognized
\* POS, so a token with an unrecognized tag adds to none of them
C9_Statistics ==
    pc = "analysed" =>
        /\ statistics.total_tokens = Len(Tokens(doc))
        /\ SumOfCounts(statistics.pos_distribution) = statistics.total_tokens
        /\ \A k \in 1..Len(Tokens(doc)) :
             \E m \in 1..Len(statistics.pos_distribution) :
                 statistics.pos_distribution[m].key = Tokens(doc)[k].pos
        /\ statistics.total_words
             = statistics.total_tokens
               - Cardinality({ k \in 1..Len(Tokens(doc)) :
                                 Tokens(doc)[k].pos \in {"PUNCT", "SYM"} })
        /\ \A tl \in TopLists :
             \A k \in 1..Len(tl[2]) :
                 tl[2][k].count = Cardinality(Occurrences(tl[2][k].lemma, tl[1]))
        /\ \A k \in 1..Len(dictionary) :
             /\ dictionary[k].pos \in RecognizedPos
             /\ dictionary[k].count
                  = Cardinality(Occurrences(dictionary[k].lemma, dictionary[k].pos))

\* a token with an unrecognized tag shares its lemma with a noun of the top
\* list, beside a PUNCT and a SYM token
C9_Witness ==
    /\ pc = "analysed"
    /\ \E k \in 1..Len(Tokens(doc)) :
         /\ Tokens(doc)[k].pos \notin RecognizedPos
         /\ \E m \in 1..Len(statistics.top_nouns) :
              statistics.top_nouns[m].lemma = KeyLemma(Tokens(doc)[k])
    /\ \E k \in 1..Len(Tokens(doc)) : Tokens(doc)[k].pos = "PUNCT"
    /\ \E k \in 1..Len(Tokens(doc)) : Tokens(doc)[k].pos = "SYM"

====
